---------------------------- MODULE Spec2Model ----------------------------
(***************************************************************************)
(* Model of tourboxelite/gui/update_checker.py: the UpdateChecker thread   *)
(* whose run() fetches __init__.py from GitHub, extracts VERSION with a    *)
(* regular expression, compares it with the installed version and emits    *)
(* one of three Qt signals.                                                *)
(*                                                                         *)
(* Text is modelled character by character: a str is a sequence of         *)
(* one-character strings.  An optional value (Python's None) is a record   *)
(* [some, val].                                                            *)
(***************************************************************************)
EXTENDS Integers, Sequences, FiniteSets, TLC

VARIABLES
    pc,               \* position inside run() / the helper under test
    current_version,  \* self.current_version (tourboxelite.VERSION)
    content,          \* the decoded response body (local `content`)
    latest_version,   \* local `latest_version` (result of _parse_version)
    exc,              \* the exception in flight inside the try block
    emitted,          \* the signals emitted so far, in order
    calls             \* the helpers run() has invoked so far, in order

vars == <<pc, current_version, content, latest_version, exc, emitted, calls>>

-----------------------------------------------------------------------------
(* Bounds of the model. *)

\* longest remote version string placed in a response body
MaxLatestLen == 3
\* longest installed version string
MaxCurrentLen == 2
\* longest whitespace run around '=' in the bodies given to _parse_version
MaxWs == 1

-----------------------------------------------------------------------------
(* Characters. *)

Digits == {"0", "1", "2", "3", "4", "5", "6", "7", "8", "9"}

\* what \s matches and what str.strip() / int() strip
Whitespace == {" ", "\t", "\n", "\r", "\f"}

\* the characters ['\"] of the pattern
Quotes == {"'", "\""}

\* the characters version strings are drawn from: digits, the separator,
\* a sign and a letter
VersionChars == {"0", "1", ".", "-", "a"}

\* all sequences over S of length at most n
RECURSIVE SeqsUpTo(_, _)
SeqsUpTo(S, n) ==
    IF n = 0 THEN {<<>>}
    ELSE LET shorter == SeqsUpTo(S, n - 1)
         IN  shorter \cup {Append(s, c) : s \in {t \in shorter : Len(t) = n - 1}, c \in S}

\* n copies of c
RECURSIVE Repeat(_, _)
Repeat(c, n) == IF n = 0 THEN <<>> ELSE <<c>> \o Repeat(c, n - 1)

\* Python's None and a present value
None == [some |-> FALSE, val |-> <<>>]
Some(v) == [some |-> TRUE, val |-> v]

-----------------------------------------------------------------------------
(* _parse_version: re.search(r"VERSION\s*=\s*['\"]([^'\"]+)['\"]", content) *)

\* the literal VERSION of the pattern
VERSION_LITERAL == <<"V", "E", "R", "S", "I", "O", "N">>

\* the literal VERSION occurs in s starting at index i
LiteralAt(s, i) ==
    /\ i + Len(VERSION_LITERAL) - 1 <= Len(s)
    /\ \A k \in 1..Len(VERSION_LITERAL) : s[i + k - 1] = VERSION_LITERAL[k]

\* first index >= i of s whose character is not in class (Len(s)+1 if none):
\* where a greedy class* starting at i stops
RECURSIVE SkipClass(_, _, _)
SkipClass(s, i, class) ==
    IF i <= Len(s) /\ s[i] \in class THEN SkipClass(s, i + 1, class) ELSE i

\* first index >= i of s whose character is a quote (Len(s)+1 if none):
\* where the greedy [^'\"]+ starting at i stops
RECURSIVE SkipNonQuotes(_, _)
SkipNonQuotes(s, i) ==
    IF i <= Len(s) /\ s[i] \notin Quotes THEN SkipNonQuotes(s, i + 1) ELSE i

\* ['\"]([^'\"]+)['\"] with the opening quote expected at q1 and the run of
\* non-quotes ending before q2
MatchValue(s, q1, q2) ==
    IF q2 > q1 + 1 /\ q2 <= Len(s) /\ s[q2] \in Quotes
    THEN Some(SubSeq(s, q1 + 1, q2 - 1))
    ELSE None

\* variant: the quotes are optional, an unquoted value runs to the next quote
MatchQuoted_QuotesOptional(s, q1) ==
    IF q1 <= Len(s) /\ s[q1] \in Quotes
    THEN MatchValue(s, q1, SkipNonQuotes(s, q1 + 1))
    ELSE IF q1 <= Len(s) THEN Some(SubSeq(s, q1, SkipNonQuotes(s, q1) - 1))
    ELSE None

\* variant: only double quotes open a value
MatchQuoted_DoubleOnly(s, q1) ==
    IF q1 <= Len(s) /\ s[q1] = "\""
    THEN MatchValue(s, q1, SkipNonQuotes(s, q1 + 1))
    ELSE None

MatchQuoted(s, q1) ==
    IF q1 <= Len(s) /\ s[q1] \in Quotes
    THEN MatchValue(s, q1, SkipNonQuotes(s, q1 + 1))
    ELSE None

\* =\s* and the rest, with '=' expected at eq
MatchEquals(s, eq) ==
    IF eq <= Len(s) /\ s[eq] = "="
    THEN MatchQuoted(s, SkipClass(s, eq + 1, Whitespace))
    ELSE None

\* The pattern anchored at index i.  Every quantified class is followed by an
\* item outside the class (\s* by '=' or a quote, [^'\"]+ by a quote), so the
\* greedy match is the only one backtracking can find.
MatchAt(s, i) ==
    IF ~LiteralAt(s, i) THEN None
    ELSE MatchEquals(s, SkipClass(s, i + Len(VERSION_LITERAL), Whitespace))

\* re.search: the match at the leftmost start position that has one
RECURSIVE SearchFrom(_, _)
SearchFrom(s, i) ==
    IF i > Len(s) THEN None
    ELSE IF MatchAt(s, i).some THEN MatchAt(s, i)
    ELSE SearchFrom(s, i + 1)

\* _parse_version(content): match.group(1), or None
ParseVersion(s) == SearchFrom(s, 1)

-----------------------------------------------------------------------------
(* _is_newer: [int(x) for x in v.split('.')] and list comparison *)

\* str.split('.'): the segments between the dots (always at least one)
RECURSIVE SplitDots(_)
SplitDots(s) ==
    IF \A k \in 1..Len(s) : s[k] # "."
    THEN <<s>>
    ELSE LET d == CHOOSE k \in 1..Len(s) : s[k] = "." /\ \A j \in 1..(k - 1) : s[j] # "."
         IN  <<SubSeq(s, 1, d - 1)>> \o SplitDots(SubSeq(s, d + 1, Len(s)))

\* str.strip(): int() ignores leading and trailing whitespace
RECURSIVE StripLeft(_)
StripLeft(s) ==
    IF s # <<>> /\ Head(s) \in Whitespace THEN StripLeft(Tail(s)) ELSE s

RECURSIVE StripRight(_)
StripRight(s) ==
    IF s # <<>> /\ s[Len(s)] \in Whitespace
    THEN StripRight(SubSeq(s, 1, Len(s) - 1)) ELSE s

Strip(s) == StripRight(StripLeft(s))

\* int() accepts an optional sign
HasSign(s) == s # <<>> /\ Head(s) \in {"+", "-"}
Unsigned(s) == IF HasSign(s) THEN Tail(s) ELSE s

\* the digit part int() accepts: digits, single underscores only between digits
DigitsOk(d) ==
    /\ d # <<>>
    /\ \A k \in 1..Len(d) : d[k] \in Digits \cup {"_"}
    /\ d[1] # "_" /\ d[Len(d)] # "_"
    /\ \A k \in 1..(Len(d) - 1) : ~(d[k] = "_" /\ d[k + 1] = "_")

\* int(x) does not raise ValueError
IntOk(x) == DigitsOk(Unsigned(Strip(x)))

DigitValue(c) ==
    CASE c = "0" -> 0 [] c = "1" -> 1 [] c = "2" -> 2 [] c = "3" -> 3
      [] c = "4" -> 4 [] c = "5" -> 5 [] c = "6" -> 6 [] c = "7" -> 7
      [] c = "8" -> 8 [] c = "9" -> 9

\* the base-10 value of a digit part (underscores skipped)
RECURSIVE Magnitude(_)
Magnitude(d) ==
    IF d = <<>> THEN 0
    ELSE IF d[Len(d)] = "_" THEN Magnitude(SubSeq(d, 1, Len(d) - 1))
    ELSE 10 * Magnitude(SubSeq(d, 1, Len(d) - 1)) + DigitValue(d[Len(d)])

\* int(x), for x with IntOk(x)
IntValue(x) ==
    LET t == Strip(x)
    IN  IF HasSign(t) /\ Head(t) = "-" THEN 0 - Magnitude(Tail(t))
        ELSE Magnitude(Unsigned(t))

\* the list comprehension raises ValueError for some segment
RaisesValueError(v) ==
    \E k \in 1..Len(SplitDots(v)) : ~IntOk(SplitDots(v)[k])

\* [int(x) for x in v.split('.')], for v that does not raise
IntParts(v) == [k \in 1..Len(SplitDots(v)) |-> IntValue(SplitDots(v)[k])]

\* Python's list `a > b`: the first index where the lists differ decides;
\* if there is none within the shorter list, the longer list is greater
RECURSIVE ListGreaterFrom(_, _, _)
ListGreaterFrom(a, b, i) ==
    IF i > Len(a) \/ i > Len(b) THEN Len(a) > Len(b)
    ELSE IF a[i] # b[i] THEN a[i] > b[i]
    ELSE ListGreaterFrom(a, b, i + 1)

\* variant: `>=` in place of `>`
ListGreater_OrEqual(a, b) == ListGreaterFrom(a, b, 1) \/ a = b

ListGreater(a, b) == ListGreaterFrom(a, b, 1)

\* variant: the except ValueError branch returns True
IsNewer_ExceptTrue(latest, current) ==
    IF RaisesValueError(latest) \/ RaisesValueError(current) THEN TRUE
    ELSE ListGreater(IntParts(latest), IntParts(current))

\* _is_newer(latest, current): the except ValueError branch returns False
IsNewer(latest, current) ==
    IF RaisesValueError(latest) \/ RaisesValueError(current) THEN FALSE
    ELSE ListGreater(IntParts(latest), IntParts(current))

-----------------------------------------------------------------------------
(* The exceptions the try block of run() can see, and the except clauses. *)

\* the base class of each exception class (Python's class hierarchy)
BaseClass ==
    [c \in {"HTTPError", "URLError", "TimeoutError", "ConnectionResetError",
            "OSError", "IncompleteRead", "UnicodeDecodeError", "ValueError",
            "Exception", "BaseException"} |->
        CASE c = "HTTPError" -> "URLError"
          [] c = "URLError" -> "OSError"
          [] c = "TimeoutError" -> "OSError"
          [] c = "ConnectionResetError" -> "OSError"
          [] c = "OSError" -> "Exception"
          [] c = "IncompleteRead" -> "Exception"
          [] c = "UnicodeDecodeError" -> "ValueError"
          [] c = "ValueError" -> "Exception"
          [] c = "Exception" -> "BaseException"
          [] c = "BaseException" -> "object"]

\* isinstance(e, target) for an exception of class cls
RECURSIVE IsInstance(_, _)
IsInstance(cls, target) ==
    \/ cls = target
    \/ cls \in DOMAIN BaseClass /\ IsInstance(BaseClass[cls], target)

NoExc == [cls |-> "none", reason |-> "", text |-> "", at |-> ""]

\* What urlopen(), response.read() and .decode('utf-8') raise: `reason` is
\* e.reason (URLError and its subclasses), `text` is str(e), `at` the call
\* that raised.
FetchExceptions ==
    { [cls |-> "URLError", reason |-> "[Errno 111] Connection refused",
       text |-> "<urlopen error [Errno 111] Connection refused>", at |-> "urlopen"],
      [cls |-> "URLError", reason |-> "timed out",
       text |-> "<urlopen error timed out>", at |-> "urlopen"],
      [cls |-> "HTTPError", reason |-> "Not Found",
       text |-> "HTTP Error 404: Not Found", at |-> "urlopen"],
      [cls |-> "TimeoutError", reason |-> "",
       text |-> "The read operation timed out", at |-> "read"],
      [cls |-> "ConnectionResetError", reason |-> "",
       text |-> "[Errno 104] Connection reset by peer", at |-> "read"],
      [cls |-> "IncompleteRead", reason |-> "",
       text |-> "IncompleteRead(0 bytes read)", at |-> "read"],
      [cls |-> "UnicodeDecodeError", reason |-> "",
       text |-> "'utf-8' codec can't decode byte 0xff in position 0: invalid start byte",
       at |-> "decode"] }

\* variant: no `except Exception` clause
ExceptClauses_NoGeneric == <<"URLError", "TimeoutError">>

\* the except clauses of run(), in source order
ExceptClauses == <<"URLError", "TimeoutError", "Exception">>

\* variant: the last matching clause wins
Handler_LastMatch(e) ==
    IF \E k \in 1..Len(ExceptClauses) : IsInstance(e.cls, ExceptClauses[k])
    THEN CHOOSE k \in 1..Len(ExceptClauses) :
            /\ IsInstance(e.cls, ExceptClauses[k])
            /\ \A j \in (k + 1)..Len(ExceptClauses) : ~IsInstance(e.cls, ExceptClauses[j])
    ELSE 0

\* the index of the first except clause that matches e (0: none, e leaves run)
Handler(e) ==
    IF \E k \in 1..Len(ExceptClauses) : IsInstance(e.cls, ExceptClauses[k])
    THEN CHOOSE k \in 1..Len(ExceptClauses) :
            /\ IsInstance(e.cls, ExceptClauses[k])
            /\ \A j \in 1..(k - 1) : ~IsInstance(e.cls, ExceptClauses[j])
    ELSE 0

\* error_msg of the clause with index k: the pieces of the formatted string
ErrorMsg(k, e) ==
    CASE k = 1 -> <<"Network error: ", e.reason>>
      [] k = 2 -> <<"Request timed out">>
      [] k = 3 -> <<"Error checking for updates: ", e.text>>

ParseFailedMsg == <<"Could not parse version from GitHub">>

\* signal.emit(args)
Emit(sig, args) == [sig |-> sig, args |-> args]

-----------------------------------------------------------------------------
(* The response bodies given to run(). *)

\* a body holding one VERSION assignment of v
AssignmentText(ws1, ws2, q1, v, q2) ==
    VERSION_LITERAL \o ws1 \o <<"=">> \o ws2 \o <<q1>> \o v \o <<q2>>

LatestStrings == SeqsUpTo(VersionChars, MaxLatestLen)

\* __init__.py as published: a comment line, then the assignment
PublishedBody(v) ==
    <<"#", "\n">> \o AssignmentText(<<" ">>, <<" ">>, "\"", v, "\"") \o <<"\n">>

\* bodies without an assignment the pattern accepts
NoMatchBodies ==
    { <<>>,
      <<"4", "0", "4">>,
      VERSION_LITERAL \o <<" ", "=", " ", "1">>,
      <<"v", "=", "'", "1", "'">> }

RunBodies == {PublishedBody(v) : v \in LatestStrings} \cup NoMatchBodies

-----------------------------------------------------------------------------
(* run() *)

Init ==
    /\ pc = "start"
    /\ current_version \in SeqsUpTo(VersionChars, MaxCurrentLen)
    /\ content = <<>>
    /\ latest_version = None
    /\ exc = NoExc
    /\ emitted = <<>>
    /\ calls = <<>>

\* lines 40-45: urlopen, read and decode succeed
FetchOk(body) ==
    /\ pc = "start"
    /\ content' = body
    /\ pc' = "fetched"
    /\ UNCHANGED <<current_version, latest_version, exc, emitted, calls>>

\* lines 40-45: urlopen, read or decode raises; control goes to the handlers
FetchRaises(e) ==
    /\ pc = "start"
    /\ exc' = e
    /\ pc' = "except"
    /\ UNCHANGED <<current_version, content, latest_version, emitted, calls>>

\* variant: no `return` after emitting check_failed
ParseStep_NoReturn ==
    /\ pc = "fetched"
    /\ latest_version' = ParseVersion(content)
    /\ calls' = Append(calls, "_parse_version")
    /\ IF ~latest_version'.some \/ latest_version'.val = <<>>
       THEN emitted' = Append(emitted, Emit("check_failed", <<ParseFailedMsg>>))
       ELSE emitted' = emitted
    /\ pc' = "parsed"
    /\ UNCHANGED <<current_version, content, exc>>

\* lines 48-51: extract the version; `if not latest_version` emits and returns
ParseStep ==
    /\ pc = "fetched"
    /\ latest_version' = ParseVersion(content)
    /\ calls' = Append(calls, "_parse_version")
    /\ IF ~latest_version'.some \/ latest_version'.val = <<>>
       THEN /\ emitted' = Append(emitted, Emit("check_failed", <<ParseFailedMsg>>))
            /\ pc' = "done"
       ELSE /\ emitted' = emitted
            /\ pc' = "parsed"
    /\ UNCHANGED <<current_version, content, exc>>

\* variant: _is_newer without its try/except, the ValueError reaches run()
CompareStep_Unguarded ==
    /\ pc = "parsed"
    /\ calls' = Append(calls, "_is_newer")
    /\ IF RaisesValueError(latest_version.val) \/ RaisesValueError(current_version)
       THEN /\ exc' = [cls |-> "ValueError", reason |-> "",
                       text |-> "invalid literal for int() with base 10", at |-> "_is_newer"]
            /\ emitted' = emitted
            /\ pc' = "except"
       ELSE /\ exc' = exc
            /\ IF ListGreater(IntParts(latest_version.val), IntParts(current_version))
               THEN emitted' = Append(emitted,
                        Emit("update_available", <<latest_version.val, current_version>>))
               ELSE emitted' = Append(emitted, Emit("no_update", <<current_version>>))
            /\ pc' = "done"
    /\ UNCHANGED <<current_version, content, latest_version>>

\* lines 56-61: compare and emit
CompareStep ==
    /\ pc = "parsed"
    /\ calls' = Append(calls, "_is_newer")
    /\ IF IsNewer(latest_version.val, current_version)
       THEN emitted' = Append(emitted,
                Emit("update_available", <<latest_version.val, current_version>>))
       ELSE emitted' = Append(emitted, Emit("no_update", <<current_version>>))
    /\ pc' = "done"
    /\ UNCHANGED <<current_version, content, latest_version, exc>>

\* variant: run() also downgrades a ValueError to "no update"
HandleException_ValueErrorNoUpdate ==
    /\ pc = "except"
    /\ IF IsInstance(exc.cls, "ValueError")
       THEN /\ emitted' = Append(emitted, Emit("no_update", <<current_version>>))
            /\ pc' = "done"
       ELSE IF Handler(exc) = 0
       THEN /\ emitted' = emitted
            /\ pc' = "raised"
       ELSE /\ emitted' = Append(emitted,
                    Emit("check_failed", <<ErrorMsg(Handler(exc), exc)>>))
            /\ pc' = "done"
    /\ UNCHANGED <<current_version, content, latest_version, exc, calls>>

\* lines 63-74: the first matching except clause emits check_failed; an
\* exception no clause matches leaves run()
HandleException ==
    /\ pc = "except"
    /\ IF Handler(exc) = 0
       THEN /\ emitted' = emitted
            /\ pc' = "raised"
       ELSE /\ emitted' = Append(emitted,
                    Emit("check_failed", <<ErrorMsg(Handler(exc), exc)>>))
            /\ pc' = "done"
    /\ UNCHANGED <<current_version, content, latest_version, exc, calls>>

Next ==
    \/ \E body \in RunBodies : FetchOk(body)
    \/ \E e \in FetchExceptions : FetchRaises(e)
    \/ ParseStep
    \/ CompareStep
    \/ HandleException

Spec == Init /\ [][Next]_vars

-----------------------------------------------------------------------------
(* _parse_version on its own, over bodies of every shape *)

\* one piece of text: the parts of an assignment, each present or not
Fragment(kw, ws1, eq, ws2, q1, v, q2) ==
    (IF kw THEN VERSION_LITERAL ELSE <<>>) \o Repeat(" ", ws1)
        \o (IF eq THEN <<"=">> ELSE <<>>) \o Repeat(" ", ws2) \o q1 \o v \o q2

\* an opening or closing quote, or nothing
MaybeQuote == {<<>>, <<"'">>, <<"\"">>}

\* the values between the quotes
Values == {<<>>, <<"1">>, <<"2", ".", "0">>}

Fragments ==
    { Fragment(kw, ws1, eq, ws2, q1, v, q2) :
        kw \in BOOLEAN, ws1 \in 0..MaxWs, eq \in BOOLEAN, ws2 \in 0..MaxWs,
        q1 \in MaybeQuote, v \in Values, q2 \in MaybeQuote }

\* a well-formed assignment or nothing, following the first fragment
Tails ==
    {<<>>} \cup
    { <<"\n">> \o AssignmentText(<<>>, <<>>, q, v, q) : q \in Quotes, v \in Values \ {<<>>} }

ParseBodies == { f \o t : f \in Fragments, t \in Tails }

InitParse ==
    /\ pc = "parse_call"
    /\ content \in ParseBodies
    /\ current_version = <<>>
    /\ latest_version = None
    /\ exc = NoExc
    /\ emitted = <<>>
    /\ calls = <<>>

\* lines 85-88
ParseCall ==
    /\ pc = "parse_call"
    /\ latest_version' = ParseVersion(content)
    /\ pc' = "parse_ret"
    /\ UNCHANGED <<current_version, content, exc, emitted, calls>>

NextParse == ParseCall

SpecParse == InitParse /\ [][NextParse]_vars

-----------------------------------------------------------------------------
(* Vocabulary of the properties. *)

Signals == {"update_available", "no_update", "check_failed"}

\* run() has returned / an exception has left run()
Returned == pc = "done"
Propagated == pc = "raised"

\* the helpers run() invoked
Called(name) == \E k \in 1..Len(calls) : calls[k] = name

\* "VERSION = <quote><value><quote>" read off the text, without searching:
\* the literal at i, '=' with only whitespace around it, a quote at q1, a
\* quote at q2 and a non-empty quote-free value between them
Blank(s, a, b) == \A k \in a..b : s[k] \in Whitespace
QuoteFree(s, a, b) == \A k \in a..b : s[k] \notin Quotes

\* a quote at q1 opens the value of the literal at i
OpensAt(s, i, q1) ==
    /\ s[q1] \in Quotes
    /\ \E e \in (i + Len(VERSION_LITERAL))..(q1 - 1) :
          /\ s[e] = "="
          /\ Blank(s, i + Len(VERSION_LITERAL), e - 1)
          /\ Blank(s, e + 1, q1 - 1)

\* a quote at q2 closes the value opened at q1
ClosesAt(s, q1, q2) ==
    /\ q2 > q1 + 1
    /\ s[q2] \in Quotes
    /\ QuoteFree(s, q1 + 1, q2 - 1)

TokenAt(s, i, q1, q2) ==
    LiteralAt(s, i) /\ OpensAt(s, i, q1) /\ ClosesAt(s, q1, q2)

HasTokenAt(s, i) ==
    /\ LiteralAt(s, i)
    /\ \E q1 \in i..Len(s) :
          /\ OpensAt(s, i, q1)
          /\ \E q2 \in q1..Len(s) : ClosesAt(s, q1, q2)

HasToken(s) == \E i \in 1..Len(s) : HasTokenAt(s, i)

\* a VERSION assignment: the token with the value wrapped in one kind of quote
AssignmentAt(s, i, q1, q2) == TokenAt(s, i, q1, q2) /\ s[q1] = s[q2]

\* a version string all of whose dot-separated segments are digit strings
IsDigitString(x) == x # <<>> /\ \A k \in 1..Len(x) : x[k] \in Digits
AllNonNegative(v) == \A k \in 1..Len(SplitDots(v)) : IsDigitString(SplitDots(v)[k])

\* standard lexicographic order on integer tuples: a > b
LexGreater(a, b) ==
    \E k \in 1..Len(a) :
        /\ \A j \in 1..(k - 1) : j <= Len(b) /\ a[j] = b[j]
        /\ (k > Len(b) \/ a[k] > b[k])

\* text as a sequence of characters, for the versions the spec cites
V_2_10_0 == <<"2", ".", "1", "0", ".", "0">>
V_2_9_9 == <<"2", ".", "9", ".", "9">>
V_2_1_0 == <<"2", ".", "1", ".", "0">>
V_2_1 == <<"2", ".", "1">>

\* the comparisons the spec cites, as _is_newer decides them
CitedComparisons ==
    /\ IsNewer(V_2_10_0, V_2_9_9) /\ ~IsNewer(V_2_9_9, V_2_10_0)
    /\ IsNewer(V_2_1_0, V_2_1) /\ ~IsNewer(V_2_1, V_2_1_0)
    /\ ~IsNewer(V_2_1_0, V_2_1_0)

\* the comparison was reached with both strings parsed / with one unparsable
Compared == Returned /\ Called("_is_newer")
BothParsed == ~RaisesValueError(latest_version.val) /\ ~RaisesValueError(current_version)

-----------------------------------------------------------------------------
(* C1: every run emits exactly one of the three signals, exactly once: none *)
(* before run ends, one when it has ended, never two, and run is always     *)
(* at one of its statements or by returning.                                *)
C1_ExactlyOneSignal ==
    /\ Len(emitted) <= 1
    /\ \A k \in 1..Len(emitted) : emitted[k].sig \in Signals
    /\ Returned <=> Len(emitted) = 1
    /\ ~Propagated
    /\ pc \in {"start", "fetched", "parsed", "except", "done"}

C1_Witness ==
    /\ Returned
    /\ emitted = <<Emit("update_available", <<latest_version.val, current_version>>)>>

(* C2: when the fetch raises, run ends by emitting check_failed with a      *)
(* message describing the failure; the exception does not leave run and no *)
(* other signal is emitted.                                                  *)
C2_FetchFailureIsCaught ==
    exc # NoExc =>
        /\ ~Propagated
        /\ pc \in {"except", "done"}
        /\ pc = "except" => emitted = <<>> /\ ENABLED HandleException
        /\ Returned =>
              /\ Len(emitted) = 1
              /\ emitted[1].sig = "check_failed"
              /\ emitted[1].args \in
                    { <<<<"Network error: ", exc.reason>>>>,
                      <<<<"Request timed out">>>>,
                      <<<<"Error checking for updates: ", exc.text>>>> }

C2_Witness ==
    /\ Returned
    /\ exc.cls = "URLError"
    /\ exc.reason = "[Errno 111] Connection refused"
    /\ emitted[1].sig = "check_failed"

(* C3: with both version strings parsed into integer tuples, run emits     *)
(* update_available(latest, current) exactly when the remote tuple is     *)
(* lexicographically greater, and no_update(current) otherwise (equal     *)
(* versions included); "2.10.0" > "2.9.9" and "2.1.0" > "2.1".             *)
C3_LexicographicOrder ==
    /\ (Compared /\ BothParsed) =>
          emitted =
            IF LexGreater(IntParts(latest_version.val), IntParts(current_version))
            THEN <<Emit("update_available", <<latest_version.val, current_version>>)>>
            ELSE <<Emit("no_update", <<current_version>>)>>
    /\ CitedComparisons

C3_Witness ==
    /\ Compared
    /\ latest_version.val = <<"1", "0">>
    /\ current_version = <<"1">>
    /\ emitted[1].sig = "update_available"

(* C4: a body without a VERSION = "<value>" token gives check_failed with  *)
(* exactly "Could not parse version from GitHub"; no comparison is made.   *)
C4_NoTokenFails ==
    (Returned /\ Called("_parse_version") /\ ~HasToken(content)) =>
        /\ emitted = <<Emit("check_failed", <<ParseFailedMsg>>)>>
        /\ ParseFailedMsg = <<"Could not parse version from GitHub">>
        /\ ~Called("_is_newer")

C4_Witness ==
    /\ Returned
    /\ content = VERSION_LITERAL \o <<" ", "=", " ", "1">>
    /\ emitted[1].sig = "check_failed"

(* C5: a version was extracted but the remote or the local string has a    *)
(* component int() rejects: run emits no_update(current), whichever of the *)
(* two it is.                                                                *)
C5_UnparsableIsNoUpdate ==
    (Compared /\ ~BothParsed) => emitted = <<Emit("no_update", <<current_version>>)>>

C5_Witness ==
    /\ Compared
    /\ latest_version.val = <<"1">>
    /\ current_version = <<"a">>
    /\ emitted[1].sig = "no_update"

(* C7 as stated: every error kind (network, timeout, missing pattern,      *)
(* non-numeric component) ends in check_failed.                             *)
ErrorOccurred ==
    \/ exc # NoExc
    \/ Called("_parse_version") /\ ~HasToken(content)
    \/ Called("_is_newer") /\ ~BothParsed

C7_AllErrorsFail ==
    ((Returned \/ Propagated) /\ ErrorOccurred) =>
        /\ Returned
        /\ Len(emitted) = 1
        /\ emitted[1].sig = "check_failed"

(* C7 amended: network errors, timeouts and a missing pattern end in       *)
(* check_failed with a message; a non-numeric component ends in            *)
(* no_update(current) and not in check_failed; nothing leaves run.          *)
C7_ErrorsHandledLocally ==
    /\ ~Propagated
    /\ (Returned /\ (exc # NoExc \/ (Called("_parse_version") /\ ~HasToken(content)))) =>
          /\ Len(emitted) = 1
          /\ emitted[1].sig = "check_failed"
          /\ emitted[1].args[1] # <<>>
    /\ (Returned /\ Called("_is_newer") /\ ~BothParsed) =>
          /\ Len(emitted) = 1
          /\ emitted[1] = Emit("no_update", <<current_version>>)

C7_Witness ==
    /\ Compared
    /\ latest_version.val = <<"1", ".", "a">>
    /\ ~RaisesValueError(current_version)
    /\ emitted[1].sig = "no_update"

(* C8: a string with a segment that is not a non-negative integer (empty,  *)
(* signed, letters) never leads to update_available.                        *)
C8_MalformedNeverNewer ==
    (Compared /\ (~AllNonNegative(latest_version.val) \/ ~AllNonNegative(current_version))) =>
        emitted[1].sig # "update_available"

(* C9: the check_failed message follows handler precedence: URLError gives *)
(* "Network error: <reason>", a TimeoutError that is no URLError gives     *)
(* "Request timed out", anything else "Error checking for updates: <text>";*)
(* one emission per exception.                                               *)
C9_HandlerPrecedence ==
    (Returned /\ exc # NoExc) =>
        emitted = << Emit("check_failed",
            << IF IsInstance(exc.cls, "URLError") THEN <<"Network error: ", exc.reason>>
               ELSE IF IsInstance(exc.cls, "TimeoutError") THEN <<"Request timed out">>
               ELSE <<"Error checking for updates: ", exc.text>> >>) >>

C9_Witness ==
    /\ Returned
    /\ exc.cls = "URLError"
    /\ exc.reason = "timed out"
    /\ emitted = <<Emit("check_failed", <<<<"Network error: ", "timed out">>>>)>>

(* C10: a ValueError raised outside _is_newer (the UTF-8 decoding failure) *)
(* ends in check_failed "Error checking for updates: ...", never in        *)
(* no_update or update_available, with no extraction or comparison made.   *)
C10_DecodeErrorFails ==
    (Returned /\ IsInstance(exc.cls, "ValueError")) =>
        /\ emitted = <<Emit("check_failed", <<<<"Error checking for updates: ", exc.text>>>>)>>
        /\ calls = <<>>
        /\ latest_version = None

C10_Witness ==
    /\ Returned
    /\ exc.cls = "UnicodeDecodeError"
    /\ exc.at = "decode"
    /\ emitted[1].sig = "check_failed"

-----------------------------------------------------------------------------
(* _parse_version *)

ParseReturned == pc = "parse_ret"

\* the value of the assignment at i
AssignedValues(s, i) ==
    IF ~LiteralAt(s, i) THEN {}
    ELSE { SubSeq(s, p[1] + 1, p[2] - 1) :
             p \in {r \in (i..Len(s)) \X (i..Len(s)) : AssignmentAt(s, i, r[1], r[2])} }

HasAssignment(s) == \E i \in 1..Len(s) : AssignedValues(s, i) # {}

\* no text before i matches the pattern
NoTokenBefore(s, i) == \A j \in 1..(i - 1) : ~HasTokenAt(s, j)

(* C6 as stated: whenever the body contains an assignment of v, in either  *)
(* quote style and with any whitespace around '=', the result is v; the    *)
(* result is None only when the body has no assignment.                     *)
C6_ReturnsAssignedValue ==
    ParseReturned =>
        /\ \A i \in 1..Len(content) : \A v \in AssignedValues(content, i) :
              latest_version = Some(v)
        /\ latest_version = None => ~HasAssignment(content)

(* C6 amended: the assignment that no pattern match precedes decides: its  *)
(* value is the result, in either quote style and with any whitespace      *)
(* around '='; the result is None only when the body has no assignment.    *)
C6_ReturnsFirstAssignedValue ==
    ParseReturned =>
        /\ \A i \in 1..Len(content) : \A v \in AssignedValues(content, i) :
              NoTokenBefore(content, i) => latest_version = Some(v)
        /\ latest_version = None => ~HasAssignment(content)

C6_Witness ==
    /\ ParseReturned
    /\ content = Fragment(TRUE, 0, TRUE, 1, <<"'">>, <<"2", ".", "0">>, <<"'">>)
    /\ latest_version = Some(<<"2", ".", "0">>)

=============================================================================
